---- MODULE Spec2Model ----
(***************************************************************************)
(* The progressive, cache-aware record loaders of the HR dashboard:        *)
(*   HRDirectory.tsx          refreshEmployeeData, fetchAllRemainingAtOnce,  *)
(*                            fetchRemainingEmployees                        *)
(*   HRAttendanceTracker.tsx  fetchAttendanceData, fetchRemainingRecords,    *)
(*                            the auto-load effect, the filter effects and   *)
(*                            the data-changed listener                      *)
(* One behaviour follows one mounted component (comp).  A handler runs to   *)
(* its next await as one step; the state updates of that step are rendered  *)
(* together and the effects that depend on them run with the step.          *)
(* Two services of the application stand beside them:                      *)
(*   salaryService.ts         salaryDataCache, fetchSalaryData,              *)
(*                            clearSalaryDataCache                           *)
(*   sseService (part_003)    SSEService connect, disconnect, handleError    *)
(***************************************************************************)
EXTENDS Integers, Sequences, FiniteSets, TLC

VARIABLES
  comp,        \* "dir" (HRDirectory) or "att" (HRAttendanceTracker)
  data,        \* employees / attendanceData
  loading,     \* loading
  loadingMore, \* loadingMore
  totalCount,  \* totalCount
  hasMore,     \* hasMore
  offset,      \* offset
  error,       \* error !== null
  filter,      \* the filter tuple of the latest render (tracker)
  search,      \* searchQuery / selectedDepartment of the latest render (tracker)
  inflight,    \* requests awaiting their response, with what their closure captured
  bulkTimers,  \* pending 100 ms setTimeout callbacks of the tracker (never cleared)
  autoTimer,   \* the 500 ms timer of the tracker's auto-load effect: <<>> or <<closure>>
  loop,        \* HRDirectory: where its timers / fetchRemainingEmployees stand
  N,           \* records the static server holds (honest specifications)
  sess,        \* number of first-page calls so far (the session epoch)
  nreq,        \* requests issued so far
  nrestart,    \* filter changes and data-changed events so far
  reqLog,      \* requests issued since the latest first-page call, in order
  hist,        \* facts about the current session the properties refer to
  salary,      \* salaryService: salaryDataCache, the requests of fetchSalaryData, the clock
  sse          \* sseService: eventSource, reconnectAttempts, pending reconnect timers

vars == <<comp, data, loading, loadingMore, totalCount, hasMore, offset, error,
          filter, search, inflight, bulkTimers, autoTimer, loop, N, sess, nreq,
          nrestart, reqLog, hist, salary, sse>>

loaderVars == <<comp, data, loading, loadingMore, totalCount, hasMore, offset, error,
                filter, search, inflight, bulkTimers, autoTimer, loop, N, sess, nreq,
                nrestart, reqLog, hist>>

BATCH_SIZE == 30

\* Bounds of the model.
MaxN == 130         \* the static server holds 0..MaxN records
MaxRequests == 4    \* requests issued in one behaviour of the open specification
MaxRestarts == 2    \* filter changes / data-changed events in one behaviour
MaxPage == 2        \* records in one page of the arbitrary server
MaxId == 2          \* ids and employee_ids the arbitrary server draws from
MaxClock == 6       \* minutes the clock of salaryService runs
MaxClears == 2      \* calls of clearSalaryDataCache in one behaviour
MaxErrors == 6      \* errors of the event stream in one behaviour

Min(a, b) == IF a < b THEN a ELSE b

\* ------------------------------------------------------------- records, pages

Rec(k) == [id |-> k, eid |-> k]

\* Records of the arbitrary server: for every id the record with its own employee_id
\* and the record that carries the employee_id of the next id, so that two records
\* may share the id only, the employee_id only, both or neither.
Records ==
  {Rec(k) : k \in 1..MaxId} \cup {[id |-> k, eid |-> (k % MaxId) + 1] : k \in 1..MaxId}

Pages == UNION {[1..n -> Records] : n \in 0..MaxPage}

\* total_count of the arbitrary server: nothing, or two batches after the first page.
Totals == {0, 2 * BATCH_SIZE + 1}

Filters == {"last_5_years", "last_12_months"}

InitFilter == "last_5_years"

\* type FilterType = TimePeriod | 'custom' | 'custom_month' | 'custom_range' | 'one_day'
FilterTypes ==
  {"last_6_months", "last_12_months", "last_5_years", "custom", "custom_month",
   "custom_range", "one_day"}

\* The request of HRDirectory has no filter parameter.
NoParams ==
  [time_period |-> "", month |-> "", year |-> "", start_date |-> "", end_date |-> ""]

\* month, year, start_date, end_date as both builders append them; a filter effect
\* fetches only when the selections of its filter type are made (lines 410-454), so
\* the selections are present.
DateParams(f) ==
  [month      |-> IF f \in {"custom", "custom_month"} THEN "selectedMonth" ELSE "",
   year       |-> IF f \in {"custom", "custom_month"} THEN "selectedYear" ELSE "",
   start_date |-> IF f = "custom_range" THEN "rangeStartDate"
                  ELSE IF f = "one_day" THEN "selectedDate" ELSE "",
   end_date   |-> IF f = "custom_range" THEN "rangeEndDate"
                  ELSE IF f = "one_day" THEN "selectedDate" ELSE ""]

WithTimePeriod(tp, d) ==
  [time_period |-> tp, month |-> d.month, year |-> d.year,
   start_date |-> d.start_date, end_date |-> d.end_date]

\* The query parameters of fetchAttendanceData (lines 173-202): 'custom' is sent for
\* custom_month, params.set('time_period', 'custom_range') for custom_range and one_day
FirstPageParams(f) ==
  WithTimePeriod(IF f = "custom_month" THEN "custom"
                 ELSE IF f \in {"custom_range", "one_day"} THEN "custom_range"
                 ELSE f,
                 DateParams(f))

\* The query parameters of fetchRemainingRecords (lines 333-353):
\* params.append('time_period', filterType), then the same branches
RemainingParams(f) ==
  WithTimePeriod(IF f \in {"custom_range", "one_day"} THEN "custom_range" ELSE f,
                 DateParams(f))

\* The filter parameters of a request of the given kind
QueryParams(kind, f) ==
  IF comp = "dir" THEN NoParams
  ELSE IF kind = "bulk" THEN RemainingParams(f)
  ELSE FirstPageParams(f)

\* Values of the search box (searchQuery); selectedDepartment is handled alike.
SearchTexts == {"", "a"}

Ids(s) == {s[i].id : i \in DOMAIN s}

EmployeeIds(s) == {s[i].eid : i \in DOMAIN s}

\* The tracker reads neither id nor employee_id of a record: what its server can vary
\* is how long a page is and which stretch of the table it repeats.  Its pages are the
\* stretches Rec(a), Rec(a+1), ... of up to MaxPage records.
PlainPages ==
  {[i \in 1..n |-> Rec(a + i - 1)] : a \in 1..MaxId, n \in 0..MaxPage}

\* A response that is ok: results, total_count, has_more, performance.cached.
\* fetchRemainingEmployees and fetchAllRemainingAtOnce read results and
\* performance.cached only, and fetchRemainingEmployees uses performance.cached on its
\* first batch only (currentOffset === startOffset): their total_count is not varied,
\* nor are has_more and performance.cached of the bulk response and of the batches
\* after the first.
AnyResponses(r) ==
  LET unread == comp = "dir" /\ r.kind \in {"batch", "bulk"}
      unused == comp = "dir" /\ (r.kind = "bulk" \/ (r.kind = "batch" /\ r.off # loop.start))
  IN  [page : IF comp = "dir" THEN Pages ELSE PlainPages,
       total : IF unread THEN {r.tot} ELSE Totals,
       has_more : IF unused THEN {TRUE} ELSE BOOLEAN,
       cached : IF unused THEN {FALSE} ELSE BOOLEAN]

\* The static server of N distinct records: limit 0 means all remaining.
HonestPage(off, limit) ==
  LET last == IF limit = 0 THEN N ELSE Min(off + limit, N)
      len  == IF last > off THEN last - off ELSE 0
  IN  [i \in 1..len |-> Rec(off + i)]

HonestResponses(r) ==
  {[page |-> HonestPage(r.off, r.limit), total |-> N,
    has_more |-> r.off + Len(HonestPage(r.off, r.limit)) < N, cached |-> c] :
     c \in BOOLEAN}

\* ------------------------------------------------------------- merging

MergeReplaces(prev, batch) == batch

\* processedBatch.filter(e => !existingIds.has(e.id) && !existingEmployeeIds.has(e.employee_id))
NewEmployees(prev, batch) ==
  SelectSeq(batch, LAMBDA e : e.id \notin Ids(prev) /\ e.eid \notin EmployeeIds(prev))

\* setEmployees(prev => [...prev, ...newEmployees])
MergeEmployees(prev, batch) == prev \o NewEmployees(prev, batch)

\* setAttendanceData(prev => [...prev, ...transformedData])
AppendRecords(prev, batch) == prev \o batch

\* ------------------------------------------------------------- loading policy

NeverEscalates(resp) == FALSE

AlwaysEscalates(resp) == resp.has_more /\ resp.total > BATCH_SIZE

\* isFromCache && has_more && total_count > BATCH_SIZE
CacheHitEscalates(resp) == resp.cached /\ resp.has_more /\ resp.total > BATCH_SIZE

OffsetStuck(off) == off

\* currentOffset + BATCH_SIZE
NextOffset(off) == off + BATCH_SIZE

\* ------------------------------------------------------------- requests

Req(kind, off, limit, flt, cap, tot) ==
  [id |-> nreq + 1, kind |-> kind, off |-> off, limit |-> limit, flt |-> flt,
   cap |-> cap, tot |-> tot, sess |-> sess, params |-> QueryParams(kind, flt)]

LogEntry(kind, off, limit) == [kind |-> kind, off |-> off, limit |-> limit]

\* firstCached / anyCached: the first page / some page of the session reported
\* performance.cached; lastFail, failKind: the latest failed request of the session;
\* received: records the responses of the session have delivered so far; sawNoMore: the
\* first page or a trickle batch of the session reported has_more = false.
NoHist == [firstCached |-> FALSE, anyCached |-> FALSE, lastFail |-> 0,
           failKind |-> "none", failSess |-> 0, received |-> 0, sawNoMore |-> FALSE]

InitWith(S) ==
  /\ comp \in {"dir", "att"}
  /\ data = <<>>
  /\ loading = TRUE
  /\ loadingMore = FALSE
  /\ totalCount = 0
  /\ hasMore = FALSE
  /\ offset = 0
  /\ error = FALSE
  /\ filter = InitFilter
  /\ search = ""
  /\ inflight = {}
  /\ bulkTimers = {}
  /\ autoTimer = <<>>
  /\ loop = [pc |-> "init", start |-> 0, cur |-> 0, total |-> 0]
  /\ N \in S
  /\ sess = 0
  /\ nreq = 0
  /\ nrestart = 0
  /\ reqLog = <<>>
  /\ hist = NoHist
  /\ salary = [cache |-> {}, pending |-> {}, now |-> 0, clears |-> 0, calls |-> 0,
               answer |-> [call |-> 0, issued |-> 0]]
  /\ sse = [eventSource |-> FALSE, reconnectAttempts |-> 0, timers |-> 0,
            client |-> FALSE, errors |-> 0]

\* ------------------------------------------------------------- HRDirectory

Issue(q) ==
  /\ inflight' = inflight \cup {q}
  /\ nreq' = nreq + 1
  /\ reqLog' = Append(reqLog, LogEntry(q.kind, q.off, q.limit))

Answered(r) == inflight' = inflight \ {r}

Failed(r) ==
  hist' = [hist EXCEPT !.lastFail = r.id, !.failKind = r.kind, !.failSess = r.sess]

LoopResumes == [loop EXCEPT !.pc = "delay500"]

\* fetchRemainingEmployees / fetchAllRemainingAtOnce returned: nothing is scheduled
Idle == [loop EXCEPT !.pc = "idle"]

\* useEffect(() => { refreshEmployeeData(); }, []) up to the await of apiCall
D_Mount ==
  /\ comp = "dir" /\ loop.pc = "init"
  /\ loading' = TRUE
  /\ offset' = 0
  /\ sess' = sess + 1
  /\ Issue([Req("first", 0, BATCH_SIZE, filter, <<>>, 0) EXCEPT !.sess = sess + 1])
  /\ loop' = [loop EXCEPT !.pc = "first"]
  /\ UNCHANGED <<salary, sse, comp, search, data, loadingMore, totalCount, hasMore, error, filter,
                 bulkTimers, autoTimer, N, nrestart, hist>>

\* refreshEmployeeData(false) after an ok response: lines 106-197
D_FirstOk(r, resp) ==
  /\ comp = "dir" /\ r.kind = "first"
  /\ Answered(r)
  /\ totalCount' = resp.total
  /\ hasMore' = resp.has_more
  /\ data' = resp.page
  /\ offset' = BATCH_SIZE
  /\ loop' = IF CacheHitEscalates(resp)
               THEN [pc |-> "timer100", start |-> BATCH_SIZE, cur |-> BATCH_SIZE,
                     total |-> resp.total]
             ELSE IF resp.has_more /\ resp.total > BATCH_SIZE
               THEN [pc |-> "timer500", start |-> BATCH_SIZE, cur |-> BATCH_SIZE,
                     total |-> resp.total]
             ELSE Idle
  /\ error' = FALSE
  /\ loading' = FALSE
  /\ loadingMore' = FALSE
  /\ hist' = [hist EXCEPT !.firstCached = resp.cached, !.anyCached = resp.cached,
                          !.received = Len(resp.page), !.sawNoMore = ~resp.has_more]
  /\ UNCHANGED <<salary, sse, comp, search, filter, bulkTimers, autoTimer, N, sess, nreq, nrestart, reqLog>>

\* refreshEmployeeData(false), response not ok or apiCall throws: lines 102-104, 192-197
D_FirstFail(r) ==
  /\ comp = "dir" /\ r.kind = "first"
  /\ Answered(r)
  /\ error' = TRUE
  /\ loading' = FALSE
  /\ loadingMore' = FALSE
  /\ loop' = Idle
  /\ Failed(r)
  /\ UNCHANGED <<salary, sse, comp, search, data, totalCount, hasMore, offset, filter, bulkTimers,
                 autoTimer, N, sess, nreq, nrestart, reqLog>>

\* setTimeout(() => fetchAllRemainingAtOnce(BATCH_SIZE, remaining), 100) fires,
\* and the await of the 50 ms delay before fetchAllRemainingAtOnce(currentOffset, remaining)
D_BulkTimer ==
  /\ comp = "dir" /\ loop.pc \in {"timer100", "delay50"}
  /\ Issue(Req("bulk", loop.cur, loop.total - loop.cur, filter, <<>>, loop.total))
  /\ loop' = [loop EXCEPT !.pc = "bulk"]
  /\ UNCHANGED <<salary, sse, comp, search, data, loading, loadingMore, totalCount, hasMore, offset, error,
                 filter, bulkTimers, autoTimer, N, sess, nrestart, hist>>

\* fetchAllRemainingAtOnce after an ok response: lines 215-265
D_BulkOk(r, resp) ==
  /\ comp = "dir" /\ r.kind = "bulk"
  /\ Answered(r)
  /\ data' = MergeEmployees(data, resp.page)
  /\ hasMore' = FALSE
  /\ loop' = Idle
  /\ hist' = [hist EXCEPT !.anyCached = @ \/ resp.cached,
                          !.received = @ + Len(resp.page)]
  /\ UNCHANGED <<salary, sse, comp, search, loading, loadingMore, totalCount, offset, error, filter,
                 bulkTimers, autoTimer, N, sess, nreq, nrestart, reqLog>>

\* fetchAllRemainingAtOnce, response not ok (return) or apiCall throws (catch)
D_BulkFail(r) ==
  /\ comp = "dir" /\ r.kind = "bulk"
  /\ Answered(r)
  /\ loop' = Idle
  /\ Failed(r)
  /\ UNCHANGED <<salary, sse, comp, search, data, loading, loadingMore, totalCount, hasMore, offset, error,
                 filter, bulkTimers, autoTimer, N, sess, nreq, nrestart, reqLog>>

LoopForever(cur, total) == TRUE

\* while (currentOffset < total), line 276
LoopContinues(cur, total) == cur < total

\* The head of fetchRemainingEmployees' loop: while (currentOffset < total) issues the
\* next request, leaving the loop runs setHasMore(false) (line 404).  Reached when the
\* 500 ms timer of the first page fires and after each inter-batch delay.
D_LoopHead ==
  /\ comp = "dir" /\ loop.pc \in {"timer500", "delay500"}
  /\ IF LoopContinues(loop.cur, loop.total)
       THEN /\ Issue(Req("batch", loop.cur, BATCH_SIZE, filter, <<>>, loop.total))
            /\ loop' = [loop EXCEPT !.pc = "batch"]
            /\ UNCHANGED hasMore
       ELSE /\ hasMore' = FALSE
            /\ loop' = Idle
            /\ UNCHANGED <<inflight, nreq, reqLog>>
  /\ UNCHANGED <<salary, sse, comp, search, data, loading, loadingMore, totalCount, offset, error, filter,
                 bulkTimers, autoTimer, N, sess, nrestart, hist>>

\* fetchRemainingEmployees after an ok response: lines 285-396
D_BatchOk(r, resp) ==
  /\ comp = "dir" /\ r.kind = "batch"
  /\ Answered(r)
  /\ hist' = [hist EXCEPT !.anyCached = @ \/ resp.cached,
                          !.received = @ + Len(resp.page), !.sawNoMore = @ \/ ~resp.has_more]
  /\ IF resp.cached /\ loop.cur = loop.start
       THEN /\ data' = MergeEmployees(data, resp.page)
            /\ IF loop.total - NextOffset(loop.cur) > 0
                 THEN /\ loop' = [loop EXCEPT !.cur = NextOffset(@), !.pc = "delay50"]
                      /\ UNCHANGED hasMore
                 ELSE /\ loop' = [loop EXCEPT !.cur = NextOffset(@), !.pc = "idle"]
                      /\ hasMore' = FALSE
       ELSE IF Len(resp.page) = 0
         THEN /\ hasMore' = FALSE
              /\ loop' = Idle
              /\ UNCHANGED data
         ELSE /\ data' = MergeEmployees(data, resp.page)
              /\ loop' = [loop EXCEPT !.cur = NextOffset(@), !.pc = "delay500"]
              /\ UNCHANGED hasMore
  /\ UNCHANGED <<salary, sse, comp, search, loading, loadingMore, totalCount, offset, error, filter,
                 bulkTimers, autoTimer, N, sess, nreq, nrestart, reqLog>>

\* fetchRemainingEmployees, response not ok (break) or an exception (catch, break),
\* then setHasMore(false) after the loop
D_BatchFail(r) ==
  /\ comp = "dir" /\ r.kind = "batch"
  /\ Answered(r)
  /\ hasMore' = FALSE
  /\ loop' = Idle
  /\ Failed(r)
  /\ UNCHANGED <<salary, sse, comp, search, data, loading, loadingMore, totalCount, offset, error, filter,
                 bulkTimers, autoTimer, N, sess, nreq, nrestart, reqLog>>

\* ------------------------------------------------------------- HRAttendanceTracker

AutoLoadNotCleared(base) ==
  autoTimer' =
    IF hasMore' /\ ~loading' /\ Len(data') > 0
      THEN <<[off |-> offset', cap |-> data', flt |-> filter',
              after |-> {t.sess : t \in bulkTimers'}]>>
    ELSE <<>>

\* The auto-load effect (lines 389-399) as it runs after the render of this step: when
\* one of its dependencies changed, the cleanup clears the pending timer and the effect
\* sets a new one if its condition holds; the callback closes over the state of that
\* render.  after: the 100 ms timers set before it, which are due earlier.
AutoLoadEffect(base) ==
  autoTimer' =
    IF <<hasMore', loading', loadingMore', Len(data')>>
         = <<hasMore, loading, loadingMore, Len(data)>>
      THEN base
    ELSE IF hasMore' /\ ~loading' /\ ~loadingMore' /\ Len(data') > 0
      THEN <<[off |-> offset', cap |-> data', flt |-> filter',
              after |-> {t.sess : t \in bulkTimers'}]>>
    ELSE <<>>

\* fetchAttendanceData() up to the await of apiCall (lines 161-215), called by an effect
\* or listener whose closure holds the filter flt; shown is the filter of the new render.
A_Start(flt, shown) ==
  /\ comp = "att"
  /\ loading' = TRUE
  /\ offset' = 0
  /\ filter' = shown
  /\ sess' = sess + 1
  /\ inflight' = inflight \cup
       {[Req("first", 0, BATCH_SIZE, flt, <<>>, 0) EXCEPT !.sess = sess + 1]}
  /\ nreq' = nreq + 1
  /\ reqLog' = <<LogEntry("first", 0, BATCH_SIZE)>>
  /\ hist' = NoHist
  /\ UNCHANGED <<salary, sse, comp, search, data, loadingMore, totalCount, hasMore, error, bulkTimers,
                 loop, N>>
  /\ AutoLoadEffect(autoTimer)

\* The effect on [filterType] at mount: filterType is 'last_5_years' (lines 402-408)
A_Mount ==
  /\ sess = 0
  /\ A_Start(InitFilter, InitFilter)
  /\ UNCHANGED nrestart

\* A filter effect after the filter changed to f (lines 402-454)
A_FilterChange(f) ==
  /\ sess > 0 /\ f # filter
  /\ A_Start(f, f)
  /\ nrestart' = nrestart + 1

\* handleDataChange (lines 457-475): the listener was registered by an effect with no
\* dependencies, so it calls the fetchAttendanceData of the first render
A_DataChanged ==
  /\ sess > 0
  /\ A_Start(InitFilter, filter)
  /\ nrestart' = nrestart + 1

\* setSearchQuery(e.target.value) / setSelectedDepartment(...): the new value is used by
\* filteredBySearch (lines 487-504) on the records held; no effect depends on it
A_SearchChange(q) ==
  /\ comp = "att" /\ sess > 0 /\ q # search
  /\ search' = q
  /\ nrestart' = nrestart + 1
  /\ UNCHANGED <<salary, sse, comp, data, loading, loadingMore, totalCount, hasMore, offset, error,
                 filter, inflight, bulkTimers, autoTimer, loop, N, sess, nreq, reqLog,
                 hist>>

\* fetchAttendanceData(false) after an ok response: lines 221-326
A_FirstOk(r, resp) ==
  /\ comp = "att" /\ r.kind = "first"
  /\ Answered(r)
  /\ totalCount' = resp.total
  /\ hasMore' = resp.has_more
  /\ data' = IF Len(resp.page) = 0 THEN <<>> ELSE resp.page
  /\ offset' = BATCH_SIZE
  /\ bulkTimers' =
       IF CacheHitEscalates(resp)
         THEN bulkTimers \cup {[sess |-> r.sess, off |-> BATCH_SIZE,
                                tot |-> resp.total, flt |-> r.flt,
                                first |-> r.params]}
         ELSE bulkTimers
  /\ error' = (Len(resp.page) = 0)
  /\ loading' = FALSE
  /\ loadingMore' = FALSE
  /\ hist' = IF r.sess = sess
               THEN [hist EXCEPT !.firstCached = resp.cached, !.anyCached = resp.cached,
                                 !.received = Len(resp.page), !.sawNoMore = ~resp.has_more]
               ELSE hist
  /\ UNCHANGED <<salary, sse, comp, search, filter, loop, N, sess, nreq, nrestart, reqLog>>
  /\ AutoLoadEffect(autoTimer)

\* fetchAttendanceData(true) after an ok response: lines 221-326
A_MoreOk(r, resp) ==
  /\ comp = "att" /\ r.kind = "more"
  /\ Answered(r)
  /\ totalCount' = resp.total
  /\ hasMore' = resp.has_more
  /\ data' = IF Len(resp.page) = 0 THEN <<>> ELSE AppendRecords(r.cap, resp.page)
  /\ offset' = NextOffset(r.off)
  /\ error' = (Len(resp.page) = 0)
  /\ loading' = FALSE
  /\ loadingMore' = FALSE
  /\ hist' = IF r.sess = sess
               THEN [hist EXCEPT !.anyCached = @ \/ resp.cached,
                                 !.received = @ + Len(resp.page), !.sawNoMore = @ \/ ~resp.has_more]
               ELSE hist
  /\ UNCHANGED <<salary, sse, comp, search, filter, bulkTimers, loop, N, sess, nreq, nrestart, reqLog>>
  /\ AutoLoadEffect(autoTimer)

KeptData(d) == d

\* setAttendanceData([]) in the catch of fetchAttendanceData (line 313)
ClearedData(d) == <<>>

\* fetchAttendanceData, response not ok or an exception: lines 217-219, 310-325
A_FetchFail(r) ==
  /\ comp = "att" /\ r.kind \in {"first", "more"}
  /\ Answered(r)
  /\ error' = TRUE
  /\ data' = ClearedData(data)
  /\ loading' = FALSE
  /\ loadingMore' = FALSE
  /\ Failed(r)
  /\ UNCHANGED <<salary, sse, comp, search, totalCount, hasMore, offset, filter, bulkTimers, loop, N, sess,
                 nreq, nrestart, reqLog>>
  /\ AutoLoadEffect(autoTimer)

\* The 500 ms timer of the auto-load effect fires: fetchAttendanceData(true) of the
\* render that set it, up to the await of apiCall
A_AutoTimer ==
  /\ comp = "att" /\ autoTimer # <<>>
  /\ \A t \in bulkTimers : t.sess \notin autoTimer[1].after
  /\ loadingMore' = TRUE
  /\ Issue(Req("more", autoTimer[1].off, BATCH_SIZE, autoTimer[1].flt,
               autoTimer[1].cap, 0))
  /\ UNCHANGED <<salary, sse, comp, search, data, loading, totalCount, hasMore, offset, error, filter,
                 bulkTimers, loop, N, sess, nrestart, hist>>
  /\ AutoLoadEffect(<<>>)

\* A 100 ms timer set by a cached first page fires: fetchRemainingRecords(BATCH_SIZE,
\* total_count) up to the await of apiCall (lines 329-362)
A_BulkTimer(t) ==
  /\ comp = "att" /\ t \in bulkTimers
  /\ bulkTimers' = bulkTimers \ {t}
  /\ loadingMore' = TRUE
  /\ Issue([Req("bulk", t.off, 0, t.flt, <<>>, t.tot) EXCEPT !.sess = t.sess])
  /\ UNCHANGED <<salary, sse, comp, search, data, loading, totalCount, hasMore, offset, error, filter,
                 loop, N, sess, nrestart, hist>>
  /\ AutoLoadEffect(autoTimer)

\* fetchRemainingRecords after an ok response: lines 367-386
A_BulkOk(r, resp) ==
  /\ comp = "att" /\ r.kind = "bulk"
  /\ Answered(r)
  /\ data' = AppendRecords(data, resp.page)
  /\ hasMore' = FALSE
  /\ offset' = r.tot
  /\ loadingMore' = FALSE
  /\ hist' = IF r.sess = sess
               THEN [hist EXCEPT !.anyCached = @ \/ resp.cached,
                                 !.received = @ + Len(resp.page)]
               ELSE hist
  /\ UNCHANGED <<salary, sse, comp, search, loading, totalCount, error, filter, bulkTimers, loop, N, sess,
                 nreq, nrestart, reqLog>>
  /\ AutoLoadEffect(autoTimer)

GivesUp == FALSE

\* setHasMore(true) in the catch of fetchRemainingRecords: "Fall back to progressive
\* loading" (lines 381-382)
FallsBack == TRUE

\* fetchRemainingRecords, response not ok or an exception: lines 363-365, 379-385
A_BulkFail(r) ==
  /\ comp = "att" /\ r.kind = "bulk"
  /\ Answered(r)
  /\ hasMore' = FallsBack
  /\ loadingMore' = FALSE
  /\ Failed(r)
  /\ UNCHANGED <<salary, sse, comp, search, data, loading, totalCount, offset, error, filter, bulkTimers,
                 loop, N, sess, nreq, nrestart, reqLog>>
  /\ AutoLoadEffect(autoTimer)

\* ------------------------------------------------------------- salaryService

\* const SALARY_DATA_CACHE_TTL = 5 * 60 * 1000, in minutes of the clock salary.now
SALARY_DATA_CACHE_TTL == 5

\* Arguments of fetchSalaryData: timePeriod, department, customStartDate, customEndDate
SalaryCalls ==
  [timePeriod : {"this_month", "custom_range"}, department : {"All"},
   customStartDate : {"d1"}, customEndDate : {"d2"}]

\* cacheKey: `custom_${customStartDate}_${customEndDate}_${department}` for
\* custom_range, `${timePeriod}_${department}` otherwise
CacheKey(c) ==
  IF c.timePeriod = "custom_range"
    THEN <<"custom", c.customStartDate, c.customEndDate, c.department>>
  ELSE <<c.timePeriod, c.department, "", "">>

\* Date.now() - cached.timestamp < SALARY_DATA_CACHE_TTL
CacheFresh(entry) == salary.now - entry.timestamp < SALARY_DATA_CACHE_TTL

\* salaryDataCache[cacheKey], when it is set and fresh
CachedFor(key) == {e \in salary.cache : e.key = key /\ CacheFresh(e)}

\* fetchSalaryData up to its return from the cache or to the await of fetch.  issued:
\* the number of cache clears before the request was sent.
S_Fetch(c) ==
  /\ salary.calls < MaxRequests
  /\ LET key == CacheKey(c)
     IN  IF CachedFor(key) # {}
           THEN salary' =
                  [salary EXCEPT !.calls = @ + 1,
                     !.answer = [call |-> salary.calls + 1,
                                 issued |-> (CHOOSE e \in CachedFor(key) : TRUE).issued]]
         ELSE salary' =
                [salary EXCEPT !.calls = @ + 1,
                   !.pending = @ \cup {[id |-> salary.calls + 1, key |-> key,
                                        issued |-> salary.clears]}]
  /\ UNCHANGED <<loaderVars, sse>>

\* fetchSalaryData after an ok response: salaryDataCache[cacheKey] = { data, timestamp }
S_Response(r) ==
  /\ r \in salary.pending
  /\ salary' =
       [salary EXCEPT !.pending = @ \ {r},
          !.cache = {e \in @ : e.key # r.key}
                      \cup {[key |-> r.key, timestamp |-> salary.now, issued |-> r.issued]}]
  /\ UNCHANGED <<loaderVars, sse>>

\* fetchSalaryData, response not ok or fetch throws: the error is rethrown
S_Fail(r) ==
  /\ r \in salary.pending
  /\ salary' = [salary EXCEPT !.pending = @ \ {r}]
  /\ UNCHANGED <<loaderVars, sse>>

\* clearSalaryDataCache(), as handleTimePeriodSelect calls it
S_Clear ==
  /\ salary.clears < MaxClears
  /\ salary' = [salary EXCEPT !.cache = {}, !.clears = @ + 1]
  /\ UNCHANGED <<loaderVars, sse>>

\* A minute passes.
S_Tick ==
  /\ salary.now < MaxClock
  /\ salary' = [salary EXCEPT !.now = @ + 1]
  /\ UNCHANGED <<loaderVars, sse>>

\* ------------------------------------------------------------- sseService

\* private maxReconnectAttempts = 5
maxReconnectAttempts == 5

\* connect(): returns if eventSource is set, else this.eventSource = new EventSource(sseUrl)
Connect(s) == [s EXCEPT !.eventSource = TRUE]

\* disconnect(): eventSource.close(); this.eventSource = null
Disconnect(s) == [s EXCEPT !.eventSource = FALSE]

\* The effect of useSessionConflict at mount: isConnectedRef.current = true;
\* sseService.connect()
E_ClientConnect ==
  /\ ~sse.client
  /\ sse' = [Connect(sse) EXCEPT !.client = TRUE]
  /\ UNCHANGED <<loaderVars, salary>>

\* The cleanup of useSessionConflict at unmount: isConnectedRef.current = false;
\* sseService.disconnect()
E_ClientDisconnect ==
  /\ sse.client
  /\ sse' = [Disconnect(sse) EXCEPT !.client = FALSE]
  /\ UNCHANGED <<loaderVars, salary>>

\* The listener of 'connected': this.reconnectAttempts = 0
E_Connected ==
  /\ sse.eventSource
  /\ sse' = [sse EXCEPT !.reconnectAttempts = 0]
  /\ UNCHANGED <<loaderVars, salary>>

\* eventSource.onerror: handleError() disconnects and, below maxReconnectAttempts,
\* sets a timer that calls connect()
E_Error ==
  /\ sse.eventSource /\ sse.errors < MaxErrors
  /\ sse' =
       IF sse.reconnectAttempts < maxReconnectAttempts
         THEN [Disconnect(sse) EXCEPT !.reconnectAttempts = @ + 1, !.timers = @ + 1,
                                      !.errors = @ + 1]
       ELSE [Disconnect(sse) EXCEPT !.errors = @ + 1]
  /\ UNCHANGED <<loaderVars, salary>>

\* A reconnect timer fires: the callback of setTimeout(() => { this.connect(); }, ...)
\* of handleError
E_ReconnectTimer ==
  /\ sse.timers > 0
  /\ sse' = [Connect(sse) EXCEPT !.timers = @ - 1]
  /\ UNCHANGED <<loaderVars, salary>>

\* ------------------------------------------------------------- specifications

Mount == D_Mount \/ A_Mount

Restart ==
  /\ nrestart < MaxRestarts
  /\ \/ \E f \in Filters : A_FilterChange(f)
     \/ A_DataChanged
     \/ \E q \in SearchTexts : A_SearchChange(q)

Timer ==
  \/ D_BulkTimer
  \/ D_LoopHead
  \/ A_AutoTimer
  \/ \E t \in bulkTimers : A_BulkTimer(t)

\* No further request once MaxRequests were issued.
Within == nreq' <= MaxRequests

\* The open specification: any ok response, any failure, filter changes and
\* data-changed events at any time.
Init == InitWith({0})

Next ==
  \/ Mount
  \/ Restart /\ Within
  \/ Timer /\ Within
  \/ \E r \in inflight : \E resp \in AnyResponses(r) : D_FirstOk(r, resp)
  \/ \E r \in inflight : \E resp \in AnyResponses(r) : D_BatchOk(r, resp)
  \/ \E r \in inflight : \E resp \in AnyResponses(r) : D_BulkOk(r, resp)
  \/ \E r \in inflight : \E resp \in AnyResponses(r) : A_FirstOk(r, resp)
  \/ \E r \in inflight : \E resp \in AnyResponses(r) : A_MoreOk(r, resp)
  \/ \E r \in inflight : \E resp \in AnyResponses(r) : A_BulkOk(r, resp)
  \/ \E r \in inflight : D_FirstFail(r)
  \/ \E r \in inflight : D_BatchFail(r)
  \/ \E r \in inflight : D_BulkFail(r)
  \/ \E r \in inflight : A_FetchFail(r)
  \/ \E r \in inflight : A_BulkFail(r)

Spec == Init /\ [][Next]_vars

\* One session: any ok response and any failure, no filter change and no
\* data-changed event.
SessionNext ==
  \/ Mount
  \/ Timer /\ Within
  \/ \E r \in inflight : \E resp \in AnyResponses(r) : D_FirstOk(r, resp)
  \/ \E r \in inflight : \E resp \in AnyResponses(r) : D_BatchOk(r, resp)
  \/ \E r \in inflight : \E resp \in AnyResponses(r) : D_BulkOk(r, resp)
  \/ \E r \in inflight : \E resp \in AnyResponses(r) : A_FirstOk(r, resp)
  \/ \E r \in inflight : \E resp \in AnyResponses(r) : A_MoreOk(r, resp)
  \/ \E r \in inflight : \E resp \in AnyResponses(r) : A_BulkOk(r, resp)
  \/ \E r \in inflight : D_FirstFail(r)
  \/ \E r \in inflight : D_BatchFail(r)
  \/ \E r \in inflight : D_BulkFail(r)
  \/ \E r \in inflight : A_FetchFail(r)
  \/ \E r \in inflight : A_BulkFail(r)

SpecSession == Init /\ [][SessionNext]_vars

\* The static server: it holds N distinct records, every request is answered ok,
\* the filter is not changed and no data-changed event is raised.
HonestInit == InitWith(0..MaxN)

HonestNext ==
  \/ Mount
  \/ Timer
  \/ \E r \in inflight : \E resp \in HonestResponses(r) : D_FirstOk(r, resp)
  \/ \E r \in inflight : \E resp \in HonestResponses(r) : D_BatchOk(r, resp)
  \/ \E r \in inflight : \E resp \in HonestResponses(r) : D_BulkOk(r, resp)
  \/ \E r \in inflight : \E resp \in HonestResponses(r) : A_FirstOk(r, resp)
  \/ \E r \in inflight : \E resp \in HonestResponses(r) : A_MoreOk(r, resp)
  \/ \E r \in inflight : \E resp \in HonestResponses(r) : A_BulkOk(r, resp)

SpecHonest == HonestInit /\ [][HonestNext]_vars

\* Timers fire and responses arrive.
FairHonest == SpecHonest /\ WF_vars(HonestNext)

\* The static server with failures: it holds N distinct records and does not change,
\* a request is answered ok or fails; no filter change, no data-changed event.
StaticNext ==
  \/ HonestNext
  \/ \E r \in inflight : D_FirstFail(r)
  \/ \E r \in inflight : D_BatchFail(r)
  \/ \E r \in inflight : D_BulkFail(r)
  \/ \E r \in inflight : A_FetchFail(r)
  \/ \E r \in inflight : A_BulkFail(r)

SpecStatic == HonestInit /\ [][StaticNext]_vars

\* HRAttendanceTracker with the static server, the filter changed to any filter type;
\* no further request once MaxRequests were issued.
FilterNext ==
  \/ A_Mount
  \/ nrestart < MaxRestarts /\ (\E f \in FilterTypes : A_FilterChange(f)) /\ Within
  \/ A_AutoTimer /\ Within
  \/ (\E t \in bulkTimers : A_BulkTimer(t)) /\ Within
  \/ \E r \in inflight : \E resp \in HonestResponses(r) : A_FirstOk(r, resp)
  \/ \E r \in inflight : \E resp \in HonestResponses(r) : A_MoreOk(r, resp)
  \/ \E r \in inflight : \E resp \in HonestResponses(r) : A_BulkOk(r, resp)

FilterInit == InitWith({0, BATCH_SIZE, MaxN}) /\ comp = "att"

SpecFilter == FilterInit /\ [][FilterNext]_vars

\* The services alone: the loaders stay as they are before their mount.
ServiceInit == InitWith({0}) /\ comp = "dir"

\* salaryService: calls of fetchSalaryData, their responses and failures, cache
\* clears, the clock.
SalaryNext ==
  \/ \E c \in SalaryCalls : S_Fetch(c)
  \/ \E r \in salary.pending : S_Response(r)
  \/ \E r \in salary.pending : S_Fail(r)
  \/ S_Clear
  \/ S_Tick

SpecSalary == ServiceInit /\ [][SalaryNext]_vars

\* sseService: a client that mounts and unmounts, stream events and errors, timers.
SseNext ==
  \/ E_ClientConnect
  \/ E_ClientDisconnect
  \/ E_Connected
  \/ E_Error
  \/ E_ReconnectTimer

SpecSse == ServiceInit /\ [][SseNext]_vars

\* ------------------------------------------------------------- what the UI shows

\* The completion message "All N employees loaded" (HRDirectory line 807,
\* HRAttendanceTracker line 889)
AllLoadedShown ==
  ~hasMore /\ ~loading /\ ~loadingMore /\ Len(data) > 0 /\ totalCount > BATCH_SIZE

\* ------------------------------------------------------------- properties

\* Nothing is outstanding: no request in flight, no timer pending, no loop running.
Done ==
  /\ sess > 0
  /\ inflight = {} /\ bulkTimers = {} /\ autoTimer = <<>>
  /\ comp = "dir" => loop.pc = "idle"

NoDuplicates(s) ==
  \A i, j \in DOMAIN s : i # j => s[i].id # s[j].id /\ s[i].eid # s[j].eid

LaterKinds == {"more", "batch", "bulk"}

\* This step is the failure of a request after the first page.
LaterFailure == hist'.lastFail # hist.lastFail /\ hist'.failKind \in LaterKinds

Ceil(n) == (n + BATCH_SIZE - 1) \div BATCH_SIZE

Complete ==
  Done /\ hasMore = FALSE /\ Len(data) = N /\ NoDuplicates(data) /\ Ids(data) = 1..N

\* C1 (Completeness): with the static server of N records, no failure and no filter
\* change, each loader eventually stands still with hasMore = false holding exactly the
\* N distinct records of the server, whichever responses report a cache hit.
C1_Completeness == <>[]Complete

\* C1, witness: a load of more than 60 records completed through a cache hit on its
\* first trickle batch: first page, one batch, one bulk request.
C1_Witness ==
  /\ Complete /\ N > 2 * BATCH_SIZE
  /\ Len(reqLog) = 3 /\ reqLog[2].kind = "batch" /\ reqLog[3].kind = "bulk"

\* C2 (No duplication in HRDirectory): employees never holds two entries that share an
\* id or share an employee_id, whatever pages the server returns.
C2_NoDuplicateEmployees == comp = "dir" => NoDuplicates(data)

\* C3 (No duplication in HRAttendanceTracker): attendanceData never holds two records
\* with the same id or employee_id, whatever pages the server returns.
C3_NoDuplicateAttendance == comp = "att" => NoDuplicates(data)

\* C4 (Stale discard): the response to a request issued before the latest restart
\* leaves attendanceData, hasMore, offset and totalCount as they are.
C4_StaleDiscard ==
  [][\A r \in inflight :
       (comp = "att" /\ r.sess < sess /\ r \notin inflight')
         => UNCHANGED <<data, hasMore, offset, totalCount>>]_vars

\* The two requests of a session escalated by its first page.
EscalatedRequests ==
  <<LogEntry("first", 0, BATCH_SIZE),
    LogEntry("bulk", BATCH_SIZE, IF comp = "dir" THEN N - BATCH_SIZE ELSE 0)>>

\* C5 (Escalation on first-page cache hit): when the first page reports a cache hit and
\* more than 30 records exist, the session issues offset 0 with limit 30, then one bulk
\* request from offset 30 for all remaining records, and nothing else.
C5_FirstPageEscalation ==
  (hist.firstCached /\ N > BATCH_SIZE) =>
     /\ Len(reqLog) <= 2
     /\ \A i \in DOMAIN reqLog : reqLog[i] = EscalatedRequests[i]
     /\ Done => Len(reqLog) = 2

\* C5, witness: the spec's example, 130 records loaded with two requests.
C5_Witness == hist.firstCached /\ N = 130 /\ Done /\ Len(reqLog) = 2 /\ Len(data) = N

\* The requests issued so far are the fixed-size pages 0, 30, 60, ... in order, and
\* at most one is outstanding.
TricklePrefix ==
  /\ \A i \in DOMAIN reqLog :
       reqLog[i].off = (i - 1) * BATCH_SIZE /\ reqLog[i].limit = BATCH_SIZE
  /\ Cardinality(inflight) <= 1

\* C6 (Trickle request sequence), as claimed: with no cache hit and no failure a
\* session over N records issues exactly ceil(N/30) requests, at offsets 0, 30, 60, ...
\* with limit 30, one at a time.
C6_TrickleSequence ==
  ~hist.anyCached => TricklePrefix /\ (Done => Len(reqLog) = Ceil(N))

\* C6, amended: the same, with one request (offset 0) when the server holds no record.
C6_TrickleSequenceAmended ==
  ~hist.anyCached =>
     TricklePrefix /\ (Done => Len(reqLog) = IF N = 0 THEN 1 ELSE Ceil(N))

\* C6, witness: the spec's example, 130 records loaded with five requests.
C6_Witness == ~hist.anyCached /\ N = 130 /\ Done /\ Len(reqLog) = 5 /\ Len(data) = N

\* C7 (Partial results survive a later failure): the failure of a trickle batch or of
\* the bulk remainder leaves the accumulated records unchanged.
C7_PartialResultsSurvive == [][LaterFailure => data' = data]_vars

\* C8 (A failed later page does not complete the session): when a trickle batch or the
\* bulk request fails, hasMore stays true and "All N loaded" is not shown.
C8_FailureDoesNotComplete == [][LaterFailure => hasMore' /\ ~AllLoadedShown']_vars

C10_MonotonicOffset ==
  [][sess' = sess =>
       /\ offset' >= offset
       /\ Len(reqLog') > Len(reqLog) /\ Len(reqLog) > 0
            => reqLog'[Len(reqLog')].off >= reqLog[Len(reqLog)].off]_vars

\* C11 (Offset tracks what was fetched): the offset of every request equals the number
\* of records the responses of its session have delivered when the request is issued.
C11_OffsetTracksFetched ==
  [][\A q \in inflight' \ inflight : q.off = hist'.received]_vars

\* The session is complete: at least one page was merged and hasMore is false.
SessionComplete == sess > 0 /\ ~hasMore /\ ~loading /\ ~loadingMore /\ Len(data) > 0

\* C12 (Complete means all records): with a server whose data does not change, a
\* complete session holds as many records as the last total_count says.
C12_CompleteMeansAll == SessionComplete => Len(data) = totalCount

\* This step starts a new session: a first-page request at offset 0 is issued.
StartsSession ==
  /\ sess' = sess + 1
  /\ \E q \in inflight' \ inflight : q.kind = "first" /\ q.off = 0 /\ q.sess = sess'

\* C13 (Filter change restarts the pipeline): every change of a component of the filter
\* tuple (time window, department, search text) starts a new session at offset 0.
C13_FilterChangeRestarts ==
  [][(comp = "att" /\ (filter' # filter \/ search' # search)) => StartsSession]_vars

\* This step is a data-changed event: a restart that leaves the filter as it is.
DataChangedStep == comp = "att" /\ sess > 0 /\ sess' = sess + 1 /\ filter' = filter

\* C14 (Data-changed restart): a dataUploaded, employeeAdded or attendanceUpdated event
\* issues a first-page request at offset 0 that carries the filter active at the event.
C14_DataChangedCarriesFilter ==
  [][DataChangedStep =>
       /\ StartsSession
       /\ \A q \in inflight' \ inflight : q.flt = filter]_vars

\* A response after the first page of the session has reported a cache hit.
LaterCacheHit == hist.anyCached /\ ~hist.firstCached

\* C15 (Mid-flight escalation): once a trickle batch after the first page has reported
\* a cache hit, the next request of the session, if any, is the bulk request.
C15_MidFlightEscalation ==
  [][LaterCacheHit => \A q \in inflight' \ inflight : q.kind = "bulk"]_vars

\* The session has issued its bulk-remainder request.
BulkIssued == \E i \in DOMAIN reqLog : reqLog[i].kind = "bulk"

\* This step issues a fixed-size trickle request.
IssuesTrickle == \E q \in inflight' \ inflight : q.kind \in {"more", "batch"}

C17_BulkOnlyAfterCacheHit ==
  [][\A q \in inflight' \ inflight : q.kind = "bulk" => hist.anyCached]_vars

\* C17, witness: a bulk request was issued after a cache hit on a later page, the
\* first page having reported none.
C17_Witness == BulkIssued /\ hist.anyCached /\ ~hist.firstCached

C19_TimersCancelled == [][\A q \in inflight' \ inflight : q.sess = sess']_vars

\* This step merges the ok response to a request after the first page.
LaterMerge ==
  /\ \E r \in inflight \ inflight' : r.kind \in LaterKinds
  /\ hist'.lastFail = hist.lastFail

IsPrefix(s, t) == Len(s) <= Len(t) /\ SubSeq(t, 1, Len(s)) = s

\* C20 (First write wins, order preserved): every successful merge of a later page
\* leaves the records accumulated before as an unchanged prefix of the new sequence.
C20_FirstWriteWins == [][LaterMerge => IsPrefix(data, data')]_vars

\* C21 (has_more = false is terminal): once the first page or a trickle batch of the
\* session has reported has_more = false, no further request is issued in the session.
C21_NoMoreIsTerminal == [][hist.sawNoMore => nreq' = nreq]_vars

\* C22 (Trickle never stalls): when the first page reported no cache hit and no
\* request has failed, the loader does not come to rest with hasMore still true.
C22_TrickleNeverStalls ==
  (Done /\ hist.failKind = "none" /\ ~hist.firstCached) => ~hasMore

\* The first-page request of the current session has failed.
FirstPageFailed == hist.failKind = "first" /\ hist.failSess = sess

\* C23 (First-page failure fails the session): after the first-page request of a
\* session failed, no request is issued until the next session starts.
C23_FirstPageFailureFails == [][(FirstPageFailed /\ sess' = sess) => nreq' = nreq]_vars

\* This step merges an ok response after the first page that holds no record.
EmptyLaterMerge == LaterMerge /\ hist'.received = hist.received

\* C24 (Merging an empty later page is a no-op on the data): an ok response after the
\* first page with zero records leaves the accumulated records as they are.
C24_EmptyPageNoOp == [][EmptyLaterMerge => data' = data]_vars

\* The 100 ms timer t fires and fetchRemainingRecords issues the bulk request q.
BulkFollows(t, q) ==
  /\ t \in bulkTimers \ bulkTimers'
  /\ q \in inflight' \ inflight
  /\ q.kind = "bulk"

\* C25: a session is bound to one filter: the bulk request of HRAttendanceTracker
\* carries exactly the filter parameters (time_period, month, year, start_date,
\* end_date) of the first-page request whose response scheduled it, for every filter
\* type.
C25_OneFilterPerSession ==
  [][\A t \in bulkTimers : \A q \in inflight' :
       BulkFollows(t, q) => q.params = t.first]_vars

\* The bulk request of the current HRAttendanceTracker session failed and no request
\* failed after it.
BulkFailed == comp = "att" /\ hist.failKind = "bulk" /\ hist.failSess = sess

\* C26 (Fallback to progressive loading): with a server whose data does not change,
\* after the bulk request of HRAttendanceTracker failed the requests that follow it are
\* fixed-size requests of 30 at offsets 30, 60, ..., and as long as none of them fails
\* the loader comes to rest only after they were issued and a response reported
\* has_more = false.
C26_FallbackToProgressive ==
  BulkFailed =>
    /\ \A i \in DOMAIN reqLog :
         i > 2 => reqLog[i] = LogEntry("more", (i - 2) * BATCH_SIZE, BATCH_SIZE)
    /\ Done => Len(reqLog) > 2 /\ hist.sawNoMore

\* C26, witness: the bulk request failed and the fallback loaded all of more than 90
\* records with fixed-size requests.
C26_Witness ==
  BulkFailed /\ Done /\ N > 3 * BATCH_SIZE /\ Len(data) = N /\ Len(reqLog) > 4

\* C27 (Loaded never exceeds total): with a server whose data does not change, the
\* number of records held, shown as loaded, never exceeds the last total_count
\* received, however first-page, trickle, bulk and restart requests and their
\* responses interleave.
C27_LoadedWithinTotal == Len(data) <= totalCount

\* The requests of the given kind the session has issued.
Issued(kind) == Cardinality({i \in DOMAIN reqLog : reqLog[i].kind = kind})

\* C28 (Bounded trickle in HRDirectory): whatever the server answers,
\* fetchRemainingEmployees(startOffset, total) issues at most
\* ceil((total - startOffset) / 30) fixed-size requests and at most one bulk request:
\* its k-th fixed-size request is at offset startOffset + 30 * (k - 1), below total.
C28_BoundedTrickle ==
  comp = "dir" =>
    /\ Issued("batch") <= Ceil(loop.total - loop.start)
    /\ Issued("bulk") <= 1
    /\ \A i \in DOMAIN reqLog :
         reqLog[i].kind = "batch" =>
           /\ reqLog[i].off = loop.start + (i - 2) * BATCH_SIZE
           /\ reqLog[i].off < loop.total

\* C28, witness: fetchRemainingEmployees(30, 61) has returned after two fixed-size
\* requests, the bound.
C28_Witness ==
  /\ comp = "dir" /\ loop.pc = "idle" /\ loop.total - loop.start > BATCH_SIZE
  /\ Issued("batch") = Ceil(loop.total - loop.start)

\* This step returns the answer of a fetchSalaryData call from salaryDataCache.
AnsweredFromCache == salary'.answer # salary.answer

\* C29 (Cache clear is effective): a fetchSalaryData call that is answered from
\* salaryDataCache gets data whose request was issued after the latest
\* clearSalaryDataCache(), also when a request was in flight at the clear.
C29_CacheClearEffective ==
  [][AnsweredFromCache => salary'.answer.issued = salary.clears]_vars

\* This step opens an EventSource.
OpensEventSource == ~sse.eventSource /\ sse'.eventSource

\* C30 (Disconnect is final): once the client has called sseService.disconnect(), an
\* EventSource is opened only by the client's next connect(); a reconnect timer of an
\* earlier handleError opens none.
C30_DisconnectIsFinal ==
  [][(~sse.client /\ OpensEventSource) => sse'.client]_vars

====
